---- MODULE Spec2Model ----
(***************************************************************************)
(* Model of the notebook "2a. Rekognition Custom Labels.ipynb": one run of *)
(* its code cells from top to bottom (setup, SDK connection, deploy, the   *)
(* inference loop, clean up).  A cell that raises ends the run.  The       *)
(* Rekognition service is the environment: it serves the calls and moves   *)
(* the model version through its lifecycle on its own schedule.            *)
(*                                                                         *)
(* Numbers: a confidence is a percentage 0..100; a box coordinate is a     *)
(* fixed-point number in tenths of the image size (10 is the image edge).  *)
(* Python's None for override_confidence is the empty set, a given floor f *)
(* is the set {f}.                                                         *)
(***************************************************************************)
EXTENDS Integers, Sequences, FiniteSets

\* ---------------------------------------------------------------- bounds
MaxImages == 2
MaxDets == 2

\* ------------------------------------------------------------ value sets
VarNames == {"BUCKET_NAME", "CLASS_NAMES", "test_image_folder"}

\* The order in which the setup cell restores and asserts the three values.
SetupOrder == <<"BUCKET_NAME", "CLASS_NAMES", "test_image_folder">>

BucketValues == {"", "bootsncats-bucket"}
FolderValues == {"", "data/test"}
VocabValues == {<< >>, <<"boots", "cats">>, <<"cats", "boots", "cats">>}
Regions == {"us-east-1", "eu-west-1"}
FloorValues == {{}, {0}, {80}}

LabelNames == {"boots", "cats", "hats"}
ConfValues == {50, 92}
Boxes ==
    { [Left |-> 1, Top |-> 2, Width |-> 3, Height |-> 4],
      [Left |-> 8, Top |-> 7, Width |-> 3, Height |-> 5] }

\* One element of the service's CustomLabels list.
CustomLabel ==
    { [Name |-> n, Confidence |-> c, Geometry |-> [BoundingBox |-> b]] :
        n \in LabelNames, c \in ConfValues, b \in Boxes }

SeqsUpTo(S, n) == UNION { [1..k -> S] : k \in 0..n }

\* What the service may answer for a request with floor `floor` ({} = the
\* model's own assumed threshold, under which any score may be returned).
ServiceResponses(floor) ==
    { r \in SeqsUpTo(CustomLabel, MaxDets) :
        \A k \in 1..Len(r) : \A f \in floor : r[k].Confidence >= f }

\* os.listdir: the files of the folder in an arbitrary order.
Listings ==
    { l \in SeqsUpTo(1..MaxImages, MaxImages) :
        /\ \A a, b \in 1..Len(l) : a # b => l[a] # l[b]
        /\ \A a \in 1..Len(l) : l[a] <= Len(l) }

VARIABLES
    stored,              \* names present in the IPython store
    BUCKET_NAME, CLASS_NAMES, test_image_folder,   \* their stored values
    region, bucket_region,
    override_confidence,
    listing,             \* os.listdir(test_image_folder)
    user_ns,             \* names bound in the kernel by the setup cell
    pc,                  \* the cell (or loop step) about to run
    i,                   \* position of the loop in listing (1-based)
    modelStatus,         \* the model version's status at the service
    calls,               \* remote API calls issued so far, in order
    inflight,            \* detect requests sent and not yet answered
    response,            \* response["CustomLabels"] of the current image
    result,              \* the normalized detections of the current image
    drawn,               \* the boxes the renderer drew for the current image
    sent, normalized, rendered,   \* images that passed each stage, in order
    error                \* the exception that ended the run, or "none"

cfgvars == <<stored, BUCKET_NAME, CLASS_NAMES, test_image_folder, region,
             bucket_region, override_confidence, listing>>
loopvars == <<i, inflight, response, result, drawn, sent, normalized, rendered>>
vars == <<cfgvars, user_ns, pc, modelStatus, calls, loopvars, error>>

Init ==
    /\ stored \in SUBSET VarNames
    /\ BUCKET_NAME \in BucketValues
    /\ CLASS_NAMES \in VocabValues
    /\ test_image_folder \in FolderValues
    /\ region \in Regions
    /\ bucket_region \in Regions
    /\ override_confidence \in FloorValues
    /\ listing \in Listings
    /\ user_ns = {}
    /\ pc = "setup"
    /\ i = 1
    /\ modelStatus = "STOPPED"
    /\ calls = << >>
    /\ inflight = << >>
    /\ response = << >>
    /\ result = << >>
    /\ drawn = << >>
    /\ sent = << >>
    /\ normalized = << >>
    /\ rendered = << >>
    /\ error = "none"

\* ------------------------------------------------------- setup cell (11)
\* Python truthiness of a restored value: "" and [] are falsy.
Truthy(name) ==
    CASE name = "BUCKET_NAME" -> BUCKET_NAME # ""
      [] name = "CLASS_NAMES" -> Len(CLASS_NAMES) > 0
      [] OTHER -> test_image_folder # ""

\* Position in SetupOrder of the first value whose assert statement raises,
\* 0 when all three pass.
FirstBad ==
    LET bad == { k \in 1..Len(SetupOrder) :
                   ~(SetupOrder[k] \in stored /\ Truthy(SetupOrder[k])) }
    IN IF bad = {} THEN 0 ELSE CHOOSE k \in bad : \A j \in bad : k <= j

\* `%store -r X` binds X in the kernel only when the store holds X (otherwise
\* it prints a notice and binds nothing); `assert X, msg` then raises
\* NameError for an unbound X and AssertionError for a falsy one.
SetupCell ==
    /\ pc = "setup"
    /\ IF FirstBad = 0
         THEN /\ user_ns' = VarNames
              /\ pc' = "connect"
              /\ error' = error
         ELSE /\ user_ns' = { SetupOrder[j] : j \in 1..FirstBad } \cap stored
              /\ pc' = "halted"
              /\ error' = IF SetupOrder[FirstBad] \in stored
                            THEN "AssertionError" ELSE "NameError"
    /\ UNCHANGED <<cfgvars, modelStatus, calls, loopvars>>

\* ---------------------------------------------- SDK connection cell (13)
\* Faulty variant: the region assertion is missing.
RegionCheckSkipped == TRUE

RegionCheckPasses == bucket_region = region

ConnectCell ==
    /\ pc = "connect"
    /\ calls' = Append(calls, "head_bucket")
    /\ IF RegionCheckPasses
         THEN pc' = "deploy" /\ error' = error
         ELSE pc' = "halted" /\ error' = "AssertionError"
    /\ UNCHANGED <<cfgvars, user_ns, modelStatus, loopvars>>

\* ------------------------------------------------------ deploy cell (15)
\* Faulty variant: the deploy cell blocks until the model version runs.
StatusAfterWaiting == "RUNNING"

\* The status the model version has when start_project_version returns.
StatusAfterStart == "STARTING"

DeployCell ==
    /\ pc = "deploy"
    /\ calls' = Append(calls, "start_project_version")
    /\ modelStatus' = StatusAfterStart
    /\ pc' = "loop"
    /\ UNCHANGED <<cfgvars, user_ns, loopvars, error>>

\* --------------------------------------------------- inference loop (17)
\* Faulty variant: the loop visits sorted(os.listdir(...)).
ImageAtSorted(l, k) == k

\* The k-th image the for statement visits.
ImageAt(l, k) == l[k]

\* The SDK checks the keyword arguments before it sends anything: None is
\* not a valid MinConfidence (a float is required).
ParamsValid(floor) == floor # {}

\* for test_image in ...: open, read, and issue detect_custom_labels.
DetectCall ==
    /\ pc = "loop"
    /\ i <= Len(listing)
    /\ IF ParamsValid(override_confidence)
         THEN /\ inflight' = Append(inflight,
                       [Image |-> ImageAt(listing, i),
                        MinConfidence |-> override_confidence])
              /\ sent' = Append(sent, ImageAt(listing, i))
              /\ calls' = Append(calls, "detect_custom_labels")
              /\ pc' = "await"
              /\ error' = error
         ELSE /\ pc' = "halted"
              /\ error' = "ParamValidationError"
              /\ UNCHANGED <<inflight, sent, calls>>
    /\ UNCHANGED <<cfgvars, user_ns, modelStatus, i, response, result, drawn,
                   normalized, rendered>>

\* The blocking call returns the service's answer.
DetectReturns ==
    /\ pc = "await"
    /\ modelStatus = "RUNNING"
    /\ \E r \in ServiceResponses(Head(inflight).MinConfidence) : response' = r
    /\ inflight' = Tail(inflight)
    /\ pc' = "normalize"
    /\ UNCHANGED <<cfgvars, user_ns, modelStatus, calls, i, result, drawn, sent,
                   normalized, rendered, error>>

\* The errors the service may answer with.
ServiceErrors(status) ==
    IF status = "RUNNING"
      THEN {"ThrottlingException", "AccessDeniedException"}
      ELSE {"ResourceNotReadyException"}

\* Faulty variant: the loop catches the error and goes on with the next image.
AfterDetectErrorIsolated(k) == [pc |-> "next", i |-> k]

\* What the loop does when the call raises: nothing catches it, the cell ends.
AfterDetectError(k) == [pc |-> "halted", i |-> k]

DetectRaises ==
    /\ pc = "await"
    /\ \E e \in ServiceErrors(modelStatus) : error' = e
    /\ inflight' = Tail(inflight)
    /\ pc' = AfterDetectError(i).pc
    /\ i' = AfterDetectError(i).i
    /\ UNCHANGED <<cfgvars, user_ns, modelStatus, calls, response, result, drawn,
                   sent, normalized, rendered>>

\* list.index: the 0-based position of the first occurrence.
HasName(V, n) == \E k \in 1..Len(V) : V[k] = n

\* Faulty variant: the position of the last occurrence.
IndexLast(V, n) ==
    (CHOOSE k \in 1..Len(V) : V[k] = n /\ \A j \in (k + 1)..Len(V) : V[j] # n) - 1

Index(V, n) ==
    (CHOOSE k \in 1..Len(V) : V[k] = n /\ \A j \in 1..(k - 1) : V[j] # n) - 1

\* Faulty variant: the corners are clamped to the image edge.
NormalizeOneClamped(V, l) ==
    LET b == l.Geometry.BoundingBox
        Clamp(x) == IF x > 10 THEN 10 ELSE x
    IN << (CHOOSE k \in 1..Len(V) : V[k] = l.Name /\ \A j \in 1..(k - 1) : V[j] # l.Name) - 1,
          l.Confidence, b.Left, b.Top,
          Clamp(b.Left + b.Width), Clamp(b.Top + b.Height) >>

\* The lambda of the map: one CustomLabel to [class_ix, conf, x1, y1, x2, y2].
NormalizeOne(V, l) ==
    << Index(V, l.Name),
       l.Confidence,
       l.Geometry.BoundingBox.Left,
       l.Geometry.BoundingBox.Top,
       l.Geometry.BoundingBox.Left + l.Geometry.BoundingBox.Width,
       l.Geometry.BoundingBox.Top + l.Geometry.BoundingBox.Height >>

\* Faulty variant: detections under a confidence of 60 are dropped.
NormalizeAllFiltered(V, r) ==
    LET keep == SelectSeq(r, LAMBDA l : l.Confidence >= 60)
    IN [k \in 1..Len(keep) |-> NormalizeOne(V, keep[k])]

\* list(map(lambda, response["CustomLabels"]))
NormalizeAll(V, r) == [k \in 1..Len(r) |-> NormalizeOne(V, r[k])]

Normalize ==
    /\ pc = "normalize"
    /\ IF \A k \in 1..Len(response) : HasName(CLASS_NAMES, response[k].Name)
         THEN /\ result' = NormalizeAll(CLASS_NAMES, response)
              /\ normalized' = Append(normalized, ImageAt(listing, i))
              /\ pc' = "render"
              /\ error' = error
         ELSE /\ pc' = "halted"
              /\ error' = "ValueError"
              /\ UNCHANGED <<result, normalized>>
    /\ UNCHANGED <<cfgvars, user_ns, modelStatus, calls, i, inflight, response,
                   drawn, sent, rendered>>

\* Faulty variant: the renderer's cutoff is left at 60.
RenderThreshCutoff == 50 + 10

\* thresh=0 in the call of util.visualize_detection.
RenderThresh == 0

\* util.visualize_detection: the detections drawn at a display threshold.
Shown(dets, thresh) == SelectSeq(dets, LAMBDA d : d[2] >= thresh)

Render ==
    /\ pc = "render"
    /\ drawn' = Shown(result, RenderThresh)
    /\ rendered' = Append(rendered, ImageAt(listing, i))
    /\ pc' = "next"
    /\ UNCHANGED <<cfgvars, user_ns, modelStatus, calls, i, inflight, response,
                   result, sent, normalized, error>>

\* Back to the for statement: response, result and the drawing are not read
\* again before the next iteration assigns them.
NextImage ==
    /\ pc = "next"
    /\ i' = i + 1
    /\ response' = << >>
    /\ result' = << >>
    /\ drawn' = << >>
    /\ pc' = "loop"
    /\ UNCHANGED <<cfgvars, user_ns, modelStatus, calls, inflight, sent,
                   normalized, rendered, error>>

LoopExit ==
    /\ pc = "loop"
    /\ i > Len(listing)
    /\ pc' = "cleanup"
    /\ UNCHANGED <<cfgvars, user_ns, modelStatus, calls, loopvars, error>>

\* ---------------------------------------------------- clean up cell (19)
CleanupCell ==
    /\ pc = "cleanup"
    /\ calls' = Append(calls, "stop_project_version")
    /\ IF modelStatus = "RUNNING"
         THEN modelStatus' = "STOPPING" /\ pc' = "done" /\ error' = error
         ELSE modelStatus' = modelStatus /\ pc' = "halted"
              /\ error' = "ResourceInUseException"
    /\ UNCHANGED <<cfgvars, user_ns, loopvars>>

\* ------------------------------------------- the service's own lifecycle
ModelStarted ==
    /\ modelStatus = "STARTING"
    /\ modelStatus' = "RUNNING"
    /\ UNCHANGED <<cfgvars, user_ns, pc, calls, loopvars, error>>

ModelStopped ==
    /\ modelStatus = "STOPPING"
    /\ modelStatus' = "STOPPED"
    /\ UNCHANGED <<cfgvars, user_ns, pc, calls, loopvars, error>>

Next ==
    \/ SetupCell
    \/ ConnectCell
    \/ DeployCell
    \/ DetectCall
    \/ DetectReturns
    \/ DetectRaises
    \/ Normalize
    \/ Render
    \/ NextImage
    \/ LoopExit
    \/ CleanupCell
    \/ ModelStarted
    \/ ModelStopped

Spec == Init /\ [][Next]_vars

\* ----------------------------------------------------------------- claims
\* The current image's result has been assigned (and not yet cleared).
Normalized == pc \in {"render", "next"}

DetectErrors ==
    {"ThrottlingException", "AccessDeniedException", "ResourceNotReadyException"}

Prefix(s, n) == SubSeq(s, 1, n)

Range(s) == { s[k] : k \in 1..Len(s) }

\* C1: every normalized record is the 6-tuple (class_id, confidence, x1, y1,
\* x2, y2) of its detection with x1 = Left, y1 = Top, x2 = Left + Width,
\* y2 = Top + Height and the confidence copied; the sums are not clamped.
C1_CornerConversion ==
    Normalized =>
      \A k \in 1..Len(result) :
        LET b == response[k].Geometry.BoundingBox
        IN /\ Len(result[k]) = 6
           /\ CLASS_NAMES[result[k][1] + 1] = response[k].Name
           /\ result[k][2] = response[k].Confidence
           /\ result[k][3] = b.Left
           /\ result[k][4] = b.Top
           /\ result[k][5] = b.Left + b.Width
           /\ result[k][6] = b.Top + b.Height

\* A detection whose right and bottom corners lie outside the image was
\* normalized: x2 and y2 exceed the image edge.
C1_Witness ==
    /\ pc = "render"
    /\ \E k \in 1..Len(result) : result[k][5] > 10 /\ result[k][6] > 10

\* C2: a name that occurs in the vocabulary resolves to the 0-based position
\* of its first occurrence; a name that does not makes the normalization of
\* the image fail with the lookup's error, and no class ID (no default, no
\* sentinel) and no result is produced for the image.
C2_ClassIdLookup ==
    /\ Normalized =>
         \A k \in 1..Len(result) :
           LET id == result[k][1]
           IN /\ id \in 0..(Len(CLASS_NAMES) - 1)
              /\ CLASS_NAMES[id + 1] = response[k].Name
              /\ \A j \in 1..id : CLASS_NAMES[j] # response[k].Name
    /\ (pc # "normalize" /\ \E k \in 1..Len(response) :
                              response[k].Name \notin Range(CLASS_NAMES))
         => /\ pc = "halted"
            /\ error = "ValueError"
            /\ result = << >>
            /\ listing[i] \notin Range(normalized)
            /\ listing[i] \notin Range(rendered)

\* The second detection of an image names a class outside the vocabulary
\* (the first one is known) and the normalization failed.
C2_Witness ==
    /\ error = "ValueError"
    /\ Len(response) = 2
    /\ response[1].Name = "cats"
    /\ response[2].Name = "hats"
    /\ CLASS_NAMES = <<"cats", "boots", "cats">>

\* C3: the normalized sequence has the length of the response and its k-th
\* element comes from the k-th detection: nothing is reordered, dropped,
\* filtered by confidence or merged, and an empty response gives an empty
\* sequence.
C3_OrderPreserved ==
    Normalized =>
      /\ Len(result) = Len(response)
      /\ \A k \in 1..Len(response) :
           /\ k \in DOMAIN result
           /\ result[k][2] = response[k].Confidence
           /\ result[k][3] = response[k].Geometry.BoundingBox.Left
           /\ CLASS_NAMES[result[k][1] + 1] = response[k].Name
      /\ (response = << >> => result = << >>)

\* Two detections of different classes, the second with the lower confidence,
\* were normalized in the order received.
C3_Witness ==
    /\ pc = "render"
    /\ Len(response) = 2
    /\ response[1].Confidence = 92
    /\ response[2].Confidence = 50
    /\ response[1].Name # response[2].Name
    /\ Len(result) = 2
    /\ result[2][2] = 50

\* C4: every inference call of the loop is issued as a request that carries
\* the floor as given: no minimum confidence when override_confidence is
\* None, exactly the given value otherwise.  (Once the loop has taken up the
\* first image after the deploy cell, the request for it has been sent.)
C4_FloorAsGiven ==
    /\ \A k \in 1..Len(inflight) : inflight[k].MinConfidence = override_confidence
    /\ (/\ Len(calls) >= 2
        /\ Len(listing) >= 1
        /\ i = 1
        /\ pc \in {"await", "normalize", "render", "next", "halted"})
         => sent = <<listing[1]>>

\* C5: a missing or empty configuration value makes the setup cell fail with
\* an assertion error before any remote call is issued.
C5_ConfigAssertedFirst ==
    (pc # "setup" /\ \E n \in VarNames : n \notin stored \/ ~Truthy(n))
      => /\ pc = "halted"
         /\ error = "AssertionError"
         /\ calls = << >>

\* C6: when the bucket's region differs from the session's, the region check
\* fails and the run halts: head_bucket is the only call ever issued, never
\* start_project_version, detect_custom_labels or stop_project_version.
C6_RegionMismatchHalts ==
    (bucket_region # region /\ calls # << >>)
      => /\ pc = "halted"
         /\ error = "AssertionError"
         /\ calls = <<"head_bucket">>

\* The region check has failed.
C6_Witness ==
    /\ bucket_region # region
    /\ calls = <<"head_bucket">>
    /\ pc = "halted"

\* C7 (as claimed): a service error on one image leaves every other listed
\* image, those after it included, sent, normalized and rendered.
C7_OthersUnaffected ==
    (pc = "halted" /\ error \in DetectErrors)
      => \A k \in 1..Len(listing) :
           k # i => /\ listing[k] \in Range(sent)
                    /\ listing[k] \in Range(normalized)
                    /\ listing[k] \in Range(rendered)

\* C7 (amended): a service error on one image ends the run at that image:
\* the images listed before it are already sent, normalized and rendered,
\* the failing one is sent only, and none listed after it is ever sent,
\* normalized or rendered; clean up is not reached.
C7_ErrorAbortsLoop ==
    error \in DetectErrors
      => /\ pc = "halted"
         /\ i \in 1..Len(listing)
         /\ sent = Prefix(listing, i)
         /\ normalized = Prefix(listing, i - 1)
         /\ rendered = Prefix(listing, i - 1)
         /\ inflight = << >>
         /\ calls[Len(calls)] = "detect_custom_labels"

\* The call for the first of two images was throttled; the second was never
\* sent.
C7_Witness ==
    /\ error = "ThrottlingException"
    /\ i = 1
    /\ Len(listing) = 2
    /\ listing[2] \notin Range(sent)

Thresholds == {0, 50, 60, 92, 100}

\* C8: a detection is shown exactly when its confidence is >= the display
\* threshold, so the detections shown at t2 are among those shown at t1 for
\* t1 < t2; at the threshold the loop passes, every normalized detection of
\* the image is drawn.
C8_ThresholdMonotone ==
    pc = "next" =>
      /\ drawn = result
      /\ \A t \in Thresholds :
           Len(Shown(result, t)) =
             Cardinality({ k \in 1..Len(result) : result[k][2] >= t })
      /\ \A t1, t2 \in Thresholds :
           t1 < t2 => Range(Shown(result, t2)) \subseteq Range(Shown(result, t1))

\* An image with one detection at 50 and one at 92 was rendered: both are
\* drawn, and a threshold of 60 would separate them.
C8_Witness ==
    /\ pc = "next"
    /\ Len(result) = 2
    /\ result[1][2] = 50
    /\ result[2][2] = 92
    /\ Len(drawn) = 2
    /\ Len(Shown(result, 60)) = 1

\* C9: the images are processed one at a time in listing order: one
\* inference call per listed image, at most one request outstanding, and the
\* call for an image is issued only after every earlier image has been
\* normalized and rendered; a pass without error covers the whole listing.
C9_SequentialInListingOrder ==
    /\ Len(inflight) <= 1
    /\ Len(sent) <= Len(listing)
    /\ sent = Prefix(listing, Len(sent))
    /\ Len(SelectSeq(calls, LAMBDA c : c = "detect_custom_labels")) = Len(sent)
    /\ normalized = Prefix(sent, Len(normalized))
    /\ rendered = Prefix(normalized, Len(rendered))
    /\ Len(sent) - Len(rendered) <= 1
    /\ (Len(inflight) = 1 => /\ Len(rendered) = Len(sent) - 1
                             /\ Len(normalized) = Len(sent) - 1
                             /\ inflight[1].Image = sent[Len(sent)])
    /\ (pc \in {"cleanup", "done"} => /\ sent = listing
                                      /\ normalized = listing
                                      /\ rendered = listing)

\* A pass without error over a listing that is not in sorted order.
C9_Witness ==
    /\ pc = "cleanup"
    /\ listing = <<2, 1>>
    /\ rendered = <<2, 1>>

\* C10: start and stop are single calls that return without waiting for the
\* transition they request (the model version is only STARTING when the
\* deploy cell ends, only STOPPING when clean up ends); no status call is
\* ever made, and a detect call answered while the model version is not
\* RUNNING ends the run with the model-not-running error.
C10_FireAndForget ==
    /\ [](/\ Range(calls) \subseteq {"head_bucket", "start_project_version",
                                     "detect_custom_labels", "stop_project_version"}
          /\ Len(SelectSeq(calls, LAMBDA c : c = "start_project_version")) <= 1
          /\ Len(SelectSeq(calls, LAMBDA c : c = "stop_project_version")) <= 1)
    /\ [][/\ (pc = "deploy" /\ pc' # "deploy")
               => /\ pc' = "loop"
                  /\ modelStatus' = "STARTING"
                  /\ calls' = Append(calls, "start_project_version")
          /\ (pc = "loop" /\ pc' = "await")
               => /\ modelStatus' = modelStatus
                  /\ calls' = Append(calls, "detect_custom_labels")
          /\ (pc = "await" /\ pc' # "await" /\ modelStatus # "RUNNING")
               => /\ pc' = "halted"
                  /\ error' = "ResourceNotReadyException"
          /\ (pc = "cleanup" /\ pc' = "done")
               => /\ modelStatus' = "STOPPING"
                  /\ calls' = Append(calls, "stop_project_version")]_vars

\* The first inference call was issued and answered while the model version
\* was still STARTING.
C10_Witness ==
    /\ error = "ResourceNotReadyException"
    /\ modelStatus = "STARTING"
    /\ Len(sent) = 1
    /\ calls[Len(calls)] = "detect_custom_labels"

====
